---- MODULE Spec2Model ----
(***************************************************************************)
(* Model of scripts/activity-helper.py: main() resolves today's date,      *)
(* calls find_files on three folders and get_commits once, and prints the  *)
(* combined dict as one JSON line.                                         *)
(*                                                                         *)
(* Python strings are sequences of one-character strings.  A list is a     *)
(* sequence, a dict a sequence of <<key, value>> pairs in insertion order. *)
(* A call that can raise returns [raised |-> BOOLEAN, ret |-> value].      *)
(***************************************************************************)
EXTENDS Integers, Sequences, FiniteSets

VARIABLES
    pc,         \* position of the run: which statement of main() is next
    clock,      \* the system's local date, [year, month, day]
    date,       \* main's local `date` (None before it is assigned)
    report,     \* the items of the dict display evaluated so far, in order
    last,       \* the latest lookup call: its arguments, what it saw, its result
    stdout,     \* the lines printed so far
    log         \* history: the clock reads and lookup calls made, in order

vars == <<pc, clock, date, report, last, stdout, log>>

----------------------------------------------------------------------------
(* Bounds of the model *)

MaxDay == 2         \* the clock takes the days 1..MaxDay of January 2024
MaxEntries == 2     \* a folder holds at most this many directory entries
MaxHead == 3        \* characters of captured output before the long run of "x"

(* Program constant: the slice [:60] of the commit message *)
MsgCut == 60

None == "None"

----------------------------------------------------------------------------
(* Python str / list primitives *)

Min(a, b) == IF a < b THEN a ELSE b

\* s[:n]
Take(s, n) == SubSeq(s, 1, Min(Len(s), n))

\* s[n:]
Drop(s, n) == SubSeq(s, n + 1, Len(s))

\* c in s, for a single character c
HasChar(c, s) == \E i \in 1..Len(s) : s[i] = c

\* s.find(c) + 1 for a single character c (0 when absent)
Find(c, s) ==
    IF HasChar(c, s)
    THEN CHOOSE i \in 1..Len(s) : s[i] = c /\ \A j \in 1..(i - 1) : s[j] # c
    ELSE 0

\* sub in s
Contains(sub, s) ==
    \E i \in 0..(Len(s) - Len(sub)) : SubSeq(s, i + 1, i + Len(sub)) = sub

\* s.endswith(suf)
EndsWith(s, suf) ==
    /\ Len(suf) <= Len(s)
    /\ SubSeq(s, Len(s) - Len(suf) + 1, Len(s)) = suf

\* str.isspace() of one character, over the characters the model uses
Whitespace == {" ", "\n"}

\* s.strip(): from the first to the last character that is not whitespace
strip(s) ==
    IF \A i \in 1..Len(s) : s[i] \in Whitespace THEN <<>>
    ELSE SubSeq(s,
            CHOOSE i \in 1..Len(s) :
                s[i] \notin Whitespace /\ \A j \in 1..(i - 1) : s[j] \in Whitespace,
            CHOOSE i \in 1..Len(s) :
                s[i] \notin Whitespace /\ \A j \in (i + 1)..Len(s) : s[j] \in Whitespace)

\* s.split(sep) for a single character sep: always at least one field
RECURSIVE split(_, _)
split(s, sep) ==
    LET k == Find(sep, s) IN
    IF k = 0 THEN <<s>>
    ELSE <<SubSeq(s, 1, k - 1)>> \o split(Drop(s, k), sep)

\* n copies of the character c
Run(c, n) == [i \in 1..n |-> c]

\* all sequences over S of length at most n
RECURSIVE SeqsUpTo(_, _)
SeqsUpTo(S, n) ==
    IF n = 0 THEN {<<>>}
    ELSE LET shorter == SeqsUpTo(S, n - 1) IN
         shorter \cup {Append(s, c) : s \in {t \in shorter : Len(t) = n - 1}, c \in S}

----------------------------------------------------------------------------
(* datetime.now().strftime('%Y-%m-%d') *)

DigitChars == <<"0", "1", "2", "3", "4", "5", "6", "7", "8", "9">>

\* the decimal digits of n, zero-padded to width w
RECURSIVE Pad(_, _)
Pad(n, w) == IF w = 0 THEN <<>> ELSE Pad(n \div 10, w - 1) \o <<DigitChars[(n % 10) + 1]>>

strftime(t) == Pad(t.year, 4) \o <<"-">> \o Pad(t.month, 2) \o <<"-">> \o Pad(t.day, 2)

Clocks == [year : {2024}, month : {1}, day : 1..MaxDay]

----------------------------------------------------------------------------
(* get_commits *)

\* the argument list of the git command built from date_str
GitArgv(date_str) ==
    [after  |-> date_str \o <<" ", "0", "0", ":", "0", "0">>,
     before |-> date_str \o <<" ", "2", "3", ":", "5", "9">>,
     format |-> <<"%", "h", "|", "%", "s">>]

\* variant: the message is not cut
CommitEntry_uncut(l) ==
    [hash |-> split(l, "|")[1], msg |-> split(l, "|")[2]]

\* {"hash": l.split('|')[0], "msg": l.split('|')[1][:60]}
CommitEntry(l) ==
    [hash |-> split(l, "|")[1], msg |-> Take(split(l, "|")[2], MsgCut)]

\* [CommitEntry(l) for l in lines if '|' in l]
RECURSIVE CommitEntries(_)
CommitEntries(lines) ==
    IF lines = <<>> THEN <<>>
    ELSE (IF HasChar("|", Head(lines)) THEN <<CommitEntry(Head(lines))>> ELSE <<>>)
         \o CommitEntries(Tail(lines))

\* variant: r.stdout.split(), which splits at every run of whitespace
Lines_any_whitespace(out) ==
    SelectSeq(split([i \in 1..Len(out) |-> IF out[i] \in Whitespace THEN "\n" ELSE out[i]],
                    "\n"),
              LAMBDA l : l # <<>>)

\* r.stdout.strip().split('\n')
Lines(out) == split(strip(out), "\n")

\* the body of the try: subprocess.run(...) raises when the executable cannot
\* be spawned or the captured bytes cannot be decoded; returncode is not read
TryCommits(r) ==
    IF r.kind # "completed"
    THEN [raised |-> TRUE, ret |-> <<>>]
    ELSE [raised |-> FALSE, ret |-> CommitEntries(Lines(r.stdout))]

\* variant: no except clause, the exception leaves get_commits
get_commits_uncaught(r) == TryCommits(r)

\* try: ... except: return []
get_commits(r) ==
    LET t == TryCommits(r) IN
    IF t.raised THEN [raised |-> FALSE, ret |-> <<>>] ELSE t

----------------------------------------------------------------------------
(* find_files *)

\* the last component of PSI is the Greek letter psi
PSI == "~/Code/github.com/laris-co/Nat-s-Agents/psi"
REPO == "~/Code/github.com/laris-co/Nat-s-Agents"

Folders == <<"memory/learnings", "memory/retrospectives", "writing/drafts">>
Keys == <<"learnings", "retrospectives", "drafts">>

MD == <<".", "m", "d">>
TXT == <<".", "t", "x", "t">>

DayStr(d) == strftime([year |-> 2024, month |-> 1, day |-> d])

\* What a folder can hold.  kind: a regular file, a directory, or a dangling
\* symbolic link (stat() raises FileNotFoundError); dirs: the subdirectories
\* between the folder and the entry.
Entries ==
    { [dirs |-> <<>>, name |-> <<"f", "o", "o", "-">> \o DayStr(1) \o MD,
       kind |-> "file", size |-> 10],
      [dirs |-> <<"sub">>, name |-> <<"b", "a", "r", "-">> \o DayStr(2) \o MD,
       kind |-> "file", size |-> 3],
      [dirs |-> <<>>, name |-> DayStr(1) \o MD,
       kind |-> "dir", size |-> 4096],
      [dirs |-> <<>>, name |-> DayStr(2) \o MD,
       kind |-> "dangling", size |-> 0],
      [dirs |-> <<>>, name |-> <<"f", "o", "o", "-">> \o DayStr(1) \o TXT,
       kind |-> "file", size |-> 5],
      [dirs |-> <<>>, name |-> <<"n", "o", "t", "e", "s">> \o MD,
       kind |-> "file", size |-> 1] }

\* the entries under a folder in the order the traversal meets them
Trees(n) ==
    {t \in SeqsUpTo(Entries, n) : \A i, j \in 1..Len(t) : i # j => t[i] # t[j]}

\* the states of one folder: absent, or present with a tree
FolderStates(n) ==
    {[exists |-> FALSE, tree |-> <<>>]} \cup {[exists |-> TRUE, tree |-> t] : t \in Trees(n)}

\* path.rglob("*.md"): every entry, file or not, whose name matches the pattern
rglob_md(tree) == SelectSeq(tree, LAMBDA f : EndsWith(f.name, MD))

\* {"path": str(f), "size": f.stat().st_size, "name": f.name}
FileEntry(folder, f) ==
    [path |-> [root |-> PSI, folder |-> folder, dirs |-> f.dirs, name |-> f.name],
     size |-> f.size, name |-> f.name]

RECURSIVE FileEntries(_, _)
FileEntries(folder, fs) ==
    IF fs = <<>> THEN <<>>
    ELSE <<FileEntry(folder, Head(fs))>> \o FileEntries(folder, Tail(fs))

\* the entries the comprehension keeps: date_str in f.name
Kept(tree, date_str) ==
    SelectSeq(rglob_md(tree), LAMBDA f : Contains(date_str, f.name))

\* variant: no `if not path.exists()`, enumerating the absent directory raises
find_files_unguarded(folder, date_str, fs) ==
    IF ~fs.exists THEN [raised |-> TRUE, ret |-> <<>>]
    ELSE LET kept == Kept(fs.tree, date_str) IN
         IF \E i \in 1..Len(kept) : kept[i].kind = "dangling"
         THEN [raised |-> TRUE, ret |-> <<>>]
         ELSE [raised |-> FALSE, ret |-> FileEntries(folder, kept)]

find_files(folder, date_str, fs) ==
    IF ~fs.exists THEN [raised |-> FALSE, ret |-> <<>>]
    ELSE LET kept == Kept(fs.tree, date_str) IN
         IF \E i \in 1..Len(kept) : kept[i].kind = "dangling"
         THEN [raised |-> TRUE, ret |-> <<>>]
         ELSE [raised |-> FALSE, ret |-> FileEntries(folder, kept)]

----------------------------------------------------------------------------
(* The outcomes of subprocess.run(['git', ...], capture_output=True, text=True) *)

OutChars == {"a", "|", " ", "\n"}
RunLens == {0, MsgCut, MsgCut + 1}

\* captured standard output: a short head, a run of "x", at most one more character
Outputs(h) ==
    {hd \o Run("x", k) \o tl :
        hd \in SeqsUpTo(OutChars, h), k \in RunLens, tl \in SeqsUpTo(OutChars, 1)}

ProcOutcomes(outs) ==
    {[kind |-> "spawn_error", returncode |-> 0, stdout |-> <<>>],
     [kind |-> "decode_error", returncode |-> 0, stdout |-> <<>>]}
    \cup {[kind |-> "completed", returncode |-> rc, stdout |-> o] : rc \in {0, 128}, o \in outs}

\* the outcomes the runs of main() draw from, and those get_commits is applied to
MainOutcomes == ProcOutcomes(Outputs(1))
AllOutcomes == ProcOutcomes(Outputs(MaxHead))
AllFolderStates == FolderStates(MaxEntries)

\* get_commits on each outcome, evaluated once
get_commits_of == [r \in MainOutcomes \cup AllOutcomes |-> get_commits(r)]

----------------------------------------------------------------------------
(* main *)

\* json.dumps of a dict: the members in the dict's insertion order
\* variant: members whose value is empty are left out
json_dumps_skip_empty(d) ==
    LET kept == SelectSeq(d, LAMBDA m : m[2] # <<>>) IN
    [i \in 1..Len(kept) |-> [key |-> kept[i][1], value |-> kept[i][2]]]

json_dumps(d) == [i \in 1..Len(d) |-> [key |-> d[i][1], value |-> d[i][2]]]

NoCall == [fn |-> "none"]

Init ==
    /\ pc = "date"
    /\ clock \in Clocks
    /\ date = None
    /\ report = <<>>
    /\ last = NoCall
    /\ stdout = <<>>
    /\ log = <<>>

\* the system clock passes midnight while the run is in progress
Tick ==
    /\ pc \notin {"done", "crashed"}
    /\ clock.day < MaxDay
    /\ clock' = [clock EXCEPT !.day = @ + 1]
    /\ UNCHANGED <<pc, date, report, last, stdout, log>>

\* date = datetime.now().strftime('%Y-%m-%d'); "date": date
ResolveDate ==
    /\ pc = "date"
    /\ date' = strftime(clock)
    /\ report' = <<<<"date", date'>>>>
    /\ log' = Append(log, [fn |-> "now", arg |-> "", date_str |-> None, existed |-> TRUE])
    /\ pc' = Keys[1]
    /\ UNCHANGED <<clock, last, stdout>>

\* variant: every lookup formats the clock again
DateArg_now(key) == strftime(clock)

\* the argument main passes as date_str to the lookup of the item `key`
DateArg(key) == date

\* the pc at which the lookup of the item `key` has returned
Returned(key) ==
    [learnings |-> "learnings_ret", retrospectives |-> "retrospectives_ret",
     drafts |-> "drafts_ret", commits |-> "commits_ret"][key]

NextPc(i) == IF i < Len(Keys) THEN Keys[i + 1] ELSE "commits"

\* the call find_files(Folders[i], date), up to its return or its exception
Scan(i) ==
    /\ pc = Keys[i]
    /\ \E fs \in AllFolderStates :
        LET res == find_files(Folders[i], DateArg(Keys[i]), fs) IN
        /\ last' = [fn |-> "find_files", folder |-> Folders[i],
                    date_str |-> DateArg(Keys[i]), fs |-> fs,
                    raised |-> res.raised, ret |-> res.ret]
        /\ pc' = IF res.raised THEN "crashed" ELSE Returned(Keys[i])
        /\ log' = Append(log, [fn |-> "find_files", arg |-> Folders[i],
                               date_str |-> DateArg(Keys[i]), existed |-> fs.exists])
    /\ UNCHANGED <<clock, date, report, stdout>>

\* the call get_commits(date), up to its return
Commits(outcomes) ==
    /\ pc = "commits"
    /\ \E r \in outcomes :
        LET res == get_commits_of[r] IN
        /\ last' = [fn |-> "get_commits", date_str |-> DateArg("commits"),
                    argv |-> GitArgv(DateArg("commits")), r |-> r,
                    raised |-> res.raised, ret |-> res.ret]
        /\ pc' = IF res.raised THEN "crashed" ELSE Returned("commits")
    /\ log' = Append(log, [fn |-> "subprocess.run", arg |-> REPO,
                           date_str |-> DateArg("commits"), existed |-> TRUE])
    /\ UNCHANGED <<clock, date, report, stdout>>

\* variant: an empty commit list makes main query the log again
After_retry(key) ==
    IF key = "commits"
    THEN (IF last.ret = <<>> THEN "commits" ELSE "emit")
    ELSE NextPc(CHOOSE i \in 1..Len(Keys) : Keys[i] = key)

\* the pc after the item `key` of the dict display
After(key) ==
    IF key = "commits" THEN "emit"
    ELSE NextPc(CHOOSE i \in 1..Len(Keys) : Keys[i] = key)

\* the returned list becomes the value of the item `key` of the dict display
Store(key) ==
    /\ pc = Returned(key)
    /\ report' = Append(report, <<key, last.ret>>)
    /\ last' = NoCall
    /\ pc' = After(key)
    /\ UNCHANGED <<clock, date, stdout, log>>

\* print(json.dumps({...}))
Emit ==
    /\ pc = "emit"
    /\ stdout' = Append(stdout, json_dumps(report))
    /\ pc' = "done"
    /\ UNCHANGED <<clock, date, report, last, log>>

Next ==
    \/ Tick
    \/ ResolveDate
    \/ \E i \in 1..Len(Keys) : Scan(i)
    \/ Commits(MainOutcomes)
    \/ \E key \in {Keys[i] : i \in 1..Len(Keys)} \cup {"commits"} : Store(key)
    \/ Emit

Spec == Init /\ [][Next]_vars

----------------------------------------------------------------------------
(* get_commits applied to every outcome of the command: the run of main() *)
(* in which the three folders are absent, from the call of get_commits on  *)

InitCommits ==
    /\ pc = "commits"
    /\ clock \in Clocks
    /\ date = strftime(clock)
    /\ report = <<<<"date", date>>>> \o [i \in 1..Len(Keys) |-> <<Keys[i], <<>>>>]
    /\ last = NoCall
    /\ stdout = <<>>
    /\ log = <<[fn |-> "now", arg |-> "", date_str |-> None, existed |-> TRUE]>>
             \o [i \in 1..Len(Folders) |->
                    [fn |-> "find_files", arg |-> Folders[i], date_str |-> date,
                     existed |-> FALSE]]

NextCommits ==
    \/ Commits(AllOutcomes)
    \/ Store("commits")
    \/ Emit

SpecCommits == InitCommits /\ [][NextCommits]_vars

----------------------------------------------------------------------------
(* Reading a captured output by character positions, for the statements    *)
(* about get_commits                                                       *)

\* the position of the first character of the line that holds position i
LineStart(s, i) ==
    IF \E j \in 1..(i - 1) : s[j] = "\n"
    THEN 1 + CHOOSE j \in 1..(i - 1) :
                s[j] = "\n" /\ \A k \in (j + 1)..(i - 1) : s[k] # "\n"
    ELSE 1

\* the position of the last character of the line that holds position i
LineEnd(s, i) ==
    IF \E j \in (i + 1)..Len(s) : s[j] = "\n"
    THEN (CHOOSE j \in (i + 1)..Len(s) :
                s[j] = "\n" /\ \A k \in (i + 1)..(j - 1) : s[k] # "\n") - 1
    ELSE Len(s)

\* the positions of the first `|` of each line that has one
FirstPipes(s) ==
    {i \in 1..Len(s) : s[i] = "|" /\ \A j \in LineStart(s, i)..(i - 1) : s[j] # "|"}

\* the k-th smallest element of a set of positions
Nth(P, k) == CHOOSE i \in P : Cardinality({j \in P : j < i}) = k - 1

\* s without its leading whitespace
LeftTrimmed(s) ==
    IF \A i \in 1..Len(s) : s[i] \in Whitespace THEN <<>>
    ELSE SubSeq(s, CHOOSE i \in 1..Len(s) :
                      s[i] \notin Whitespace /\ \A j \in 1..(i - 1) : s[j] \in Whitespace,
                Len(s))

GitCalled == last.fn = "get_commits"
GitCompleted == GitCalled /\ last.r.kind = "completed"
GitFailed == GitCalled /\ (last.r.kind # "completed" \/ last.r.returncode # 0)

----------------------------------------------------------------------------
(* C2 (as stated): get_commits returns the empty list whenever the command *)
(* exits non-zero or cannot be spawned, whatever its captured output, and  *)
(* no exception escapes.                                                   *)
C2_EmptyOnAnyFailure ==
    GitFailed => (~last.raised /\ last.ret = <<>>)

(* C2 (amended): no exception escapes get_commits; it returns the empty    *)
(* list whenever the command cannot be spawned or its output cannot be     *)
(* decoded, and whenever it exits non-zero with a captured output that has *)
(* no `|` in it.                                                           *)
C2_EmptyOnFailureWithoutPipe ==
    GitCalled =>
        /\ ~last.raised
        /\ pc # "crashed"
        /\ last.r.kind # "completed" => last.ret = <<>>
        /\ (GitCompleted /\ last.r.returncode # 0 /\ ~HasChar("|", last.r.stdout))
              => last.ret = <<>>

C2_Witness ==
    /\ GitCompleted
    /\ last.r.returncode # 0
    /\ last.r.stdout # <<>>
    /\ ~HasChar("|", last.r.stdout)
    /\ last.ret = <<>>
    /\ pc = Returned("commits")

(* C3 (as stated): for every line with a `|`, the entry's hash is the text *)
(* before the first `|` and its message is the first 60 characters of all  *)
(* the text after the first `|`, further `|` characters included.          *)
C3_SplitOnFirstPipeOnly ==
    GitCompleted =>
        LET s == strip(last.r.stdout)
            P == FirstPipes(s)
        IN  /\ Len(last.ret) = Cardinality(P)
            /\ \A k \in 1..Len(last.ret) :
                LET i == Nth(P, k) IN
                /\ last.ret[k].hash = SubSeq(s, LineStart(s, i), i - 1)
                /\ last.ret[k].msg = Take(SubSeq(s, i + 1, LineEnd(s, i)), MsgCut)

(* C7: the commits list has exactly one entry per line of the captured     *)
(* output that contains a `|`, in the order of the lines, and none for any *)
(* other line; the k-th entry's hash is the text that precedes the first   *)
(* `|` of the k-th such line (up to the whitespace strip() removes).       *)
C7_OneEntryPerPipeLine ==
    GitCompleted =>
        LET s == last.r.stdout
            P == FirstPipes(s)
        IN  /\ Len(last.ret) = Cardinality(P)
            /\ \A k \in 1..Len(last.ret) :
                LET i == Nth(P, k) IN
                LeftTrimmed(last.ret[k].hash) = LeftTrimmed(SubSeq(s, LineStart(s, i), i - 1))

\* two lines with a `|` and different hashes, and a line without
C7_Witness ==
    /\ GitCompleted
    /\ Len(last.ret) = 2
    /\ last.ret[1].hash # last.ret[2].hash
    /\ Len(Lines(last.r.stdout)) > 2

(* C8: every CommitEntry that get_commits returns, that the Report holds   *)
(* or that is printed has a message of at most 60 characters.              *)
MsgsCut(entries) == \A k \in 1..Len(entries) : Len(entries[k].msg) <= MsgCut

C8_MessageAtMostSixty ==
    /\ GitCalled => MsgsCut(last.ret)
    /\ Len(report) = 5 => MsgsCut(report[5][2])
    /\ \A n \in 1..Len(stdout) : MsgsCut(stdout[n][5].value)

\* a captured line whose message is longer than 60 characters has been cut
C8_Witness ==
    /\ GitCompleted
    /\ pc = Returned("commits")
    /\ \E k \in 1..Len(last.ret) :
        LET i == Nth(FirstPipes(last.r.stdout), k) IN
        /\ Len(last.ret[k].msg) = MsgCut
        /\ LineEnd(last.r.stdout, i) - i > MsgCut

----------------------------------------------------------------------------
(* The statements about find_files and main *)

ScanCalled == last.fn = "find_files"

Range(s) == {s[i] : i \in 1..Len(s)}

ReportKeys == <<"date">> \o Keys \o <<"commits">>

(* C1 (as stated): whatever the filesystem and the command do, no lookup   *)
(* aborts the run: every run that ends has written the Report.             *)
C1_EveryRunWritesTheReport ==
    pc \in {"done", "crashed"} => Len(stdout) = 1

(* C4 (as stated): on an existing directory, a call of find_files that     *)
(* returns gives exactly one entry (path, size, name) for each regular     *)
(* file at any depth whose name ends in .md and contains the date, and     *)
(* nothing else.                                                           *)
C4_ExactlyTheMatchingFiles ==
    (ScanCalled /\ last.fs.exists /\ ~last.raised) =>
        LET want == {f \in Range(last.fs.tree) :
                        /\ f.kind = "file"
                        /\ EndsWith(f.name, MD)
                        /\ Contains(last.date_str, f.name)}
            Is(e, f) ==
                /\ e.name = f.name
                /\ e.size = f.size
                /\ e.path = [root |-> PSI, folder |-> last.folder,
                             dirs |-> f.dirs, name |-> f.name]
        IN  /\ \A k \in 1..Len(last.ret) : \E f \in want : Is(last.ret[k], f)
            /\ \A f \in want :
                Cardinality({k \in 1..Len(last.ret) : Is(last.ret[k], f)}) = 1

(* C5: at most one line is ever printed, it is printed exactly when the    *)
(* run reaches the end of main, and its keys are date, learnings,          *)
(* retrospectives, drafts, commits in this order, empty lookups included.  *)
C5_OneReportWithFiveKeys ==
    /\ Len(stdout) <= 1
    /\ (pc = "done") <=> (Len(stdout) = 1)
    /\ \A n \in 1..Len(stdout) :
        [i \in 1..Len(stdout[n]) |-> stdout[n][i].key] = ReportKeys

\* a printed Report all of whose lookups are empty
C5_Witness ==
    /\ pc = "done"
    /\ Len(stdout) = 1
    /\ Len(stdout[1]) = 5
    /\ \A i \in 2..5 : stdout[1][i].value = <<>>

ExpectedCalls ==
    <<[fn |-> "now", arg |-> ""]>>
    \o [i \in 1..Len(Folders) |-> [fn |-> "find_files", arg |-> Folders[i]]]
    \o <<[fn |-> "subprocess.run", arg |-> REPO]>>

C10_OneDateKeyEverywhere ==
    /\ date = None => log = <<>>
    /\ date # None =>
        /\ log[1].fn = "now"
        /\ \A i \in 2..Len(log) : log[i].fn # "now" /\ log[i].date_str = date
        /\ report[1] = <<"date", date>>
        /\ ScanCalled => last.date_str = date
        /\ GitCalled =>
            /\ last.date_str = date
            /\ last.argv.after = date \o <<" ", "0", "0", ":", "0", "0">>
            /\ last.argv.before = date \o <<" ", "2", "3", ":", "5", "9">>
        /\ \A n \in 1..Len(stdout) : stdout[n][1] = [key |-> "date", value |-> date]

\* the Report is printed after the clock has moved to the next day
C10_Witness ==
    /\ pc = "done"
    /\ Len(stdout) = 1
    /\ strftime(clock) # date
    /\ Len(log) = 5

====
